---- MODULE Spec2Model ----
(***************************************************************************)
(* Model of bch_addr (haryu703/rust-bch-addr): the legacy adapter          *)
(* (src/src/legacy_converter.rs), the cash-style prefix registry           *)
(* (src/src/cash_converter.rs) and the Converter facade (src/src/lib.rs).  *)
(*                                                                         *)
(* A string is a record [sep, prefix, body]: whether it contains the       *)
(* separator ':', the text before the first ':' and the characters after   *)
(* it (the whole string when there is no ':').  The two external codecs    *)
(* (bs58 with checksum, cash_addr) are scaled down: a hash is HashLen      *)
(* small bytes and a checksum is one character modulo CkMod, so that the   *)
(* coincidences the real codecs permit (a string valid under two           *)
(* prefixes, or valid both as Base58Check and as a cash-style payload)     *)
(* happen within the bounds.                                               *)
(***************************************************************************)
EXTENDS Integers, Sequences, FiniteSets, TLC

VARIABLES prefix_list, prefix_inv_list, calls, last

vars == <<prefix_list, prefix_inv_list, calls, last>>

(***************************** bounds **************************************)
\* bytes of a hash are 0..MaxHashByte
MaxHashByte == 1
\* the hash length the cash-style codec accepts (20 bytes in the real codec)
HashLen == 1
\* size of the checksum space of both codecs
CkMod == 5
\* add_prefixes calls per converter, and entries per call
MaxCalls == 2
MaxSlice == 2

(***************************** data model **********************************)
Network == {"Mainnet", "Testnet", "Regtest"}

AddressType == {"P2PKH", "P2SH"}

Legacy == [kind |-> "Legacy", name |-> ""]

CashAddr == [kind |-> "CashAddr", name |-> ""]

Other(n) == [kind |-> "Other", name |-> n]

PrefixDetails(f, n) == [format |-> f, network |-> n]

Ok(v) == [status |-> "Ok", val |-> v]

IsOk(r) == r.status = "Ok"

UnknownLegacyPrefix(b) == [status |-> "Err", kind |-> "UnknownLegacyPrefix", byte |-> b]

UnknownCashPrefix(p) == [status |-> "Err", kind |-> "UnknownCashPrefix", prefix |-> p]

UnknownCashFormat(f, n) ==
    [status |-> "Err", kind |-> "UnknownCashFormat", format |-> f, network |-> n]

InvalidAddress(s) == [status |-> "Err", kind |-> "InvalidAddress", addr |-> s]

Bs58Error == [status |-> "Err", kind |-> "Bs58"]

CashAddrError == [status |-> "Err", kind |-> "CashAddr"]

\* an index out of bounds aborts the call
Panic == [status |-> "Panic"]

Parsed(f, n, t, h) == [format |-> f, network |-> n, addr_type |-> t, hash |-> h]

(***************************** strings *************************************)
Bare(body) == [sep |-> FALSE, prefix |-> "", body |-> body]

\* prefix, SEPARATOR, body
Prefixed(p, body) == [sep |-> TRUE, prefix |-> p, body |-> body]

\* addr.contains(SEPARATOR)
contains_separator(s) == s.sep

\* format!("{}{}{}", prefix, SEPARATOR, addr), for an addr without separator
format_with_prefix(p, s) == Prefixed(p, s.body)

\* el.splitn(2, ':').nth(1)
no_prefix(s) == Bare(s.body)

RECURSIVE SumSeq(_)
SumSeq(s) == IF s = <<>> THEN 0 ELSE Head(s) + SumSeq(Tail(s))

RECURSIVE WeightedSum(_, _)
WeightedSum(s, i) == IF s = <<>> THEN 0 ELSE i * Head(s) + WeightedSum(Tail(s), i + 1)

Front(s) == SubSeq(s, 1, Len(s) - 1)

(********************** Base58Check codec (bs58) ***************************)
Bs58Checksum(bytes) == (1 + WeightedSum(bytes, 1)) % CkMod

\* bs58::encode(bytes).with_check().into_string()
bs58_encode_check(bytes) == Bare(bytes \o <<Bs58Checksum(bytes)>>)

\* bs58::decode(addr).with_check(None).into_vec(): ':' is not in the alphabet
bs58_decode_check(s) ==
    IF contains_separator(s) \/ Len(s.body) = 0
    THEN Bs58Error
    ELSE IF s.body[Len(s.body)] = Bs58Checksum(Front(s.body))
         THEN Ok(Front(s.body))
         ELSE Bs58Error

(********************** cash-style codec (cash_addr) ***********************)
\* the prefix's share of the polynomial checksum: it uses the low five bits
\* of each prefix character, so "BCHTEST" and "bchtest" contribute alike
PrefixSum(p) ==
    CASE p = "bitcoincash"  -> 0
      [] p = "bchtest"      -> 1
      [] p = "BCHTEST"      -> 1
      [] p = "bchreg"       -> 2
      [] p = "simpleledger" -> 3
      [] p = "slptest"      -> 4
      [] OTHER              -> 0

TypeBits(t) == IF t = "P2PKH" THEN 0 ELSE 8

CashChecksum(p, payload) == (PrefixSum(p) + SumSeq(payload)) % CkMod

\* cash_addr::encode(prefix, addr_type, hash)
cash_addr_encode(p, t, hash) ==
    IF Len(hash) # HashLen
    THEN CashAddrError
    ELSE LET payload == <<TypeBits(t)>> \o hash
         IN  Ok(Prefixed(p, payload \o <<CashChecksum(p, payload)>>))

\* cash_addr::decode(addr): (prefix, addr_type, hash)
cash_addr_decode(s) ==
    IF ~contains_separator(s) \/ Len(s.body) # HashLen + 2
    THEN CashAddrError
    ELSE LET payload == Front(s.body)
         IN  IF /\ payload[1] \in {TypeBits(t) : t \in AddressType}
                /\ s.body[Len(s.body)] = CashChecksum(s.prefix, payload)
             THEN Ok([prefix    |-> s.prefix,
                      addr_type |-> IF payload[1] = TypeBits("P2PKH") THEN "P2PKH" ELSE "P2SH",
                      hash      |-> Tail(payload)])
             ELSE CashAddrError

(********************** legacy_converter.rs ********************************)
\* mutant: the 0xc4 row of the table names the wrong network
legacy_parse_c4_mainnet(addr) ==
    LET data == bs58_decode_check(addr)
    IN  IF ~IsOk(data) THEN data
        ELSE IF Len(data.val) = 0 THEN Panic
        ELSE LET v == data.val[1]
                 h == Tail(data.val)
             IN  CASE v = 0   -> Ok(Parsed(Legacy, "Mainnet", "P2PKH", h))
                   [] v = 5   -> Ok(Parsed(Legacy, "Mainnet", "P2SH", h))
                   [] v = 111 -> Ok(Parsed(Legacy, "Testnet", "P2PKH", h))
                   [] v = 196 -> Ok(Parsed(Legacy, "Mainnet", "P2SH", h))
                   [] OTHER   -> UnknownLegacyPrefix(v)

legacy_parse(addr) ==
    LET data == bs58_decode_check(addr)
    IN  IF ~IsOk(data) THEN data
        ELSE IF Len(data.val) = 0 THEN Panic
        ELSE LET v == data.val[1]
                 h == Tail(data.val)
             IN  CASE v = 0   -> Ok(Parsed(Legacy, "Mainnet", "P2PKH", h))
                   [] v = 5   -> Ok(Parsed(Legacy, "Mainnet", "P2SH", h))
                   [] v = 111 -> Ok(Parsed(Legacy, "Testnet", "P2PKH", h))
                   [] v = 196 -> Ok(Parsed(Legacy, "Testnet", "P2SH", h))
                   [] OTHER   -> UnknownLegacyPrefix(v)

\* mutant: both Regtest rows carry the P2PKH byte
legacy_build_regtest_p2pkh(network, addr_type, hash) ==
    LET prefix ==
          CASE network = "Mainnet" /\ addr_type = "P2PKH" -> 0
            [] network = "Mainnet" /\ addr_type = "P2SH"  -> 5
            [] network = "Testnet" /\ addr_type = "P2PKH" -> 111
            [] network = "Testnet" /\ addr_type = "P2SH"  -> 196
            [] network = "Regtest" /\ addr_type = "P2PKH" -> 111
            [] network = "Regtest" /\ addr_type = "P2SH"  -> 111
    IN  Ok(bs58_encode_check(<<prefix>> \o hash))

\* mutant: Regtest is given the Mainnet bytes
legacy_build_regtest_as_mainnet(network, addr_type, hash) ==
    LET prefix ==
          CASE network = "Mainnet" /\ addr_type = "P2PKH" -> 0
            [] network = "Mainnet" /\ addr_type = "P2SH"  -> 5
            [] network = "Testnet" /\ addr_type = "P2PKH" -> 111
            [] network = "Testnet" /\ addr_type = "P2SH"  -> 196
            [] network = "Regtest" /\ addr_type = "P2PKH" -> 0
            [] network = "Regtest" /\ addr_type = "P2SH"  -> 5
    IN  Ok(bs58_encode_check(<<prefix>> \o hash))

legacy_build(network, addr_type, hash) ==
    LET prefix ==
          CASE network = "Mainnet" /\ addr_type = "P2PKH" -> 0
            [] network = "Mainnet" /\ addr_type = "P2SH"  -> 5
            [] network = "Testnet" /\ addr_type = "P2PKH" -> 111
            [] network = "Testnet" /\ addr_type = "P2SH"  -> 196
            [] network = "Regtest" /\ addr_type = "P2PKH" -> 111
            [] network = "Regtest" /\ addr_type = "P2SH"  -> 196
    IN  Ok(bs58_encode_check(<<prefix>> \o hash))

(********************** cash_converter.rs **********************************)
\* CashConverter::new: the built-in prefixes and their exact inverse
CashConverterNew ==
    LET pl == [p \in {"bitcoincash", "bchtest", "bchreg"} |->
                 CASE p = "bitcoincash" -> PrefixDetails(CashAddr, "Mainnet")
                   [] p = "bchtest"     -> PrefixDetails(CashAddr, "Testnet")
                   [] p = "bchreg"      -> PrefixDetails(CashAddr, "Regtest")]
    IN  [prefix_list     |-> pl,
         prefix_inv_list |-> [d \in {pl[p] : p \in DOMAIN pl} |->
                                CHOOSE p \in DOMAIN pl : pl[p] = d]]

\* mutant: an entry already present is kept (HashMap::entry(k).or_insert(v))
Insert_keeps_old(m, k, v) == [x \in DOMAIN m \cup {k} |-> IF x \in DOMAIN m THEN m[x] ELSE v]

\* HashMap::insert
Insert(m, k, v) == [x \in DOMAIN m \cup {k} |-> IF x = k THEN v ELSE m[x]]

\* HashMap::extend with the slice's entries, first to last
RECURSIVE ExtendForward(_, _, _)
ExtendForward(m, prefixes, format_name) ==
    IF prefixes = <<>> THEN m
    ELSE ExtendForward(Insert(m, Head(prefixes)[1],
                              PrefixDetails(Other(format_name), Head(prefixes)[2])),
                       Tail(prefixes), format_name)

\* mutant: a pair that has a canonical prefix keeps it
RECURSIVE ExtendInverse_first_wins(_, _, _)
ExtendInverse_first_wins(m, prefixes, format_name) ==
    IF prefixes = <<>> THEN m
    ELSE LET k == PrefixDetails(Other(format_name), Head(prefixes)[2])
         IN  ExtendInverse_first_wins(
                 IF k \in DOMAIN m THEN m ELSE Insert(m, k, Head(prefixes)[1]),
                 Tail(prefixes), format_name)

\* mutant: the added prefixes become canonical for the CashAddr pairs
RECURSIVE ExtendInverse_as_cashaddr(_, _, _)
ExtendInverse_as_cashaddr(m, prefixes, format_name) ==
    IF prefixes = <<>> THEN m
    ELSE ExtendInverse_as_cashaddr(
             Insert(Insert(m, PrefixDetails(Other(format_name), Head(prefixes)[2]),
                           Head(prefixes)[1]),
                    PrefixDetails(CashAddr, Head(prefixes)[2]), Head(prefixes)[1]),
             Tail(prefixes), format_name)

RECURSIVE ExtendInverse(_, _, _)
ExtendInverse(m, prefixes, format_name) ==
    IF prefixes = <<>> THEN m
    ELSE ExtendInverse(Insert(m, PrefixDetails(Other(format_name), Head(prefixes)[2]),
                              Head(prefixes)[1]),
                       Tail(prefixes), format_name)

\* mutant: the maps are built anew from the slice instead of being extended
add_prefixes_replaces(self, prefixes, format_name) ==
    [prefix_list     |-> ExtendForward([x \in {} |-> x], prefixes, format_name),
     prefix_inv_list |-> ExtendInverse([x \in {} |-> x], prefixes, format_name)]

add_prefixes(self, prefixes, format_name) ==
    [prefix_list     |-> ExtendForward(self.prefix_list, prefixes, format_name),
     prefix_inv_list |-> ExtendInverse(self.prefix_inv_list, prefixes, format_name)]

parse_with_prefix(self, addr) ==
    LET d == cash_addr_decode(addr)
    IN  IF ~IsOk(d) THEN d
        ELSE IF d.val.prefix \notin DOMAIN self.prefix_list
             THEN UnknownCashPrefix(d.val.prefix)
             ELSE LET prefix_details == self.prefix_list[d.val.prefix]
                  IN  Ok(Parsed(prefix_details.format, prefix_details.network,
                                d.val.addr_type, d.val.hash))

\* mutant: the loop gives up at the first prefix that fails
TryPrefixes_first_only(self, keys, addr) ==
    IF keys = <<>> THEN InvalidAddress(addr)
    ELSE LET r == parse_with_prefix(self, format_with_prefix(Head(keys), addr))
         IN  IF IsOk(r) THEN r ELSE InvalidAddress(addr)

\* the loop over self.prefix_list.keys(), visited in the order `keys`
RECURSIVE TryPrefixes(_, _, _)
TryPrefixes(self, keys, addr) ==
    IF keys = <<>> THEN InvalidAddress(addr)
    ELSE LET r == parse_with_prefix(self, format_with_prefix(Head(keys), addr))
         IN  IF IsOk(r) THEN r ELSE TryPrefixes(self, Tail(keys), addr)

\* mutant: an address whose own prefix fails is tried under the registered ones
cash_parse_falls_back(self, keys, addr) ==
    IF contains_separator(addr) /\ IsOk(parse_with_prefix(self, addr))
    THEN parse_with_prefix(self, addr)
    ELSE TryPrefixes(self, keys, no_prefix(addr))

cash_parse(self, keys, addr) ==
    IF contains_separator(addr)
    THEN parse_with_prefix(self, addr)
    ELSE TryPrefixes(self, keys, addr)

\* mutant: the prefix is looked up under CashAddr, whatever the format
cash_build_ignores_format(self, format, network, addr_type, hash) ==
    IF PrefixDetails(CashAddr, network) \notin DOMAIN self.prefix_inv_list
    THEN UnknownCashFormat(format, network)
    ELSE cash_addr_encode(self.prefix_inv_list[PrefixDetails(CashAddr, network)],
                          addr_type, hash)

cash_build(self, format, network, addr_type, hash) ==
    IF PrefixDetails(format, network) \notin DOMAIN self.prefix_inv_list
    THEN UnknownCashFormat(format, network)
    ELSE cash_addr_encode(self.prefix_inv_list[PrefixDetails(format, network)],
                          addr_type, hash)

\* HashMap::keys() yields the keys in an order the map fixes but the language
\* does not define.  The loop stops at the first success, so its outcome is
\* decided by which succeeding key comes first: every outcome of any order is
\* the outcome of the order that moves that key to the front of a fixed one.
RECURSIVE SetToSeq(_)
SetToSeq(S) ==
    IF S = {} THEN <<>>
    ELSE LET x == CHOOSE y \in S : TRUE IN <<x>> \o SetToSeq(S \ {x})

KeyOrders(self) ==
    {<<k>> \o SetToSeq(DOMAIN self.prefix_list \ {k}) : k \in DOMAIN self.prefix_list}

(********************** lib.rs: Converter ***********************************)
\* Option::None for the format and network arguments
NoFormat == [kind |-> "None", name |-> ""]

NoNetwork == "None"

unwrap_or(opt, none, default) == IF opt = none THEN default ELSE opt

\* Converter::new
ConverterNew == CashConverterNew

\* mutant: the cash-style decode is tried before the legacy decode
parse_cash_first(self, keys, addr) ==
    LET c == cash_parse(self, keys, addr)
    IN  IF IsOk(c) THEN c
        ELSE LET l == legacy_parse(addr)
             IN  IF l.status # "Err" THEN l ELSE InvalidAddress(addr)

\* mutant: the last or_else is missing, the cash-style error is returned
parse_no_collapse(self, keys, addr) ==
    LET l == legacy_parse(addr)
    IN  IF l.status # "Err" THEN l ELSE cash_parse(self, keys, addr)

\* Converter::parse
parse(self, keys, addr) ==
    LET l == legacy_parse(addr)
    IN  IF l.status # "Err" THEN l
        ELSE LET c == cash_parse(self, keys, addr)
             IN  IF IsOk(c) THEN c ELSE InvalidAddress(addr)

detect_addr_format(self, keys, addr) ==
    LET r == parse(self, keys, addr)
    IN  IF IsOk(r) THEN Ok(r.val.format) ELSE r

detect_addr_network(self, keys, addr) ==
    LET r == parse(self, keys, addr)
    IN  IF IsOk(r) THEN Ok(r.val.network) ELSE r

detect_addr_type(self, keys, addr) ==
    LET r == parse(self, keys, addr)
    IN  IF IsOk(r) THEN Ok(r.val.addr_type) ELSE r

is_cash_addr(self, keys, addr) == IsOk(cash_parse(self, keys, addr))

\* legacy_converter::parse(addr).is_ok(); a panic in parse aborts this call too
is_legacy_addr(addr) ==
    LET l == legacy_parse(addr)
    IN  IF l.status = "Panic" THEN Panic ELSE Ok(IsOk(l))

\* match self.detect_addr_network(addr) { Ok(network) => network == n, Err(_) => false };
\* a panic in legacy_converter::parse aborts the call
NetworkIs(self, keys, addr, n) ==
    LET r == detect_addr_network(self, keys, addr)
    IN  IF r.status = "Panic" THEN Panic ELSE Ok(IsOk(r) /\ r.val = n)

is_mainnet_addr(self, keys, addr) == NetworkIs(self, keys, addr, "Mainnet")

is_testnet_addr(self, keys, addr) == NetworkIs(self, keys, addr, "Testnet")

is_regtest_addr(self, keys, addr) == NetworkIs(self, keys, addr, "Regtest")

\* match self.detect_addr_type(addr) { Ok(format) => format == t, Err(_) => false }
TypeIs(self, keys, addr, t) ==
    LET r == detect_addr_type(self, keys, addr)
    IN  IF r.status = "Panic" THEN Panic ELSE Ok(IsOk(r) /\ r.val = t)

is_p2pkh_addr(self, keys, addr) == TypeIs(self, keys, addr, "P2PKH")

is_p2sh_addr(self, keys, addr) == TypeIs(self, keys, addr, "P2SH")

\* mutant: an input already in the target format is encoded again
to_cash_addr_with_options_reencodes(self, keys, legacy, format_opt, network_opt) ==
    LET format == unwrap_or(format_opt, NoFormat, CashAddr)
        l      == legacy_parse(legacy)
    IN  IF l.status = "Panic" THEN Panic
        ELSE IF IsOk(l)
        THEN cash_build(self, format, unwrap_or(network_opt, NoNetwork, l.val.network),
                        l.val.addr_type, l.val.hash)
        ELSE LET c == cash_parse(self, keys, legacy)
             IN  IF ~IsOk(c) THEN InvalidAddress(legacy)
                 ELSE cash_build(self, format,
                                 unwrap_or(network_opt, NoNetwork, c.val.network),
                                 c.val.addr_type, c.val.hash)

\* mutant: the network option is dropped for a legacy input
to_cash_addr_with_options_keeps_network(self, keys, legacy, format_opt, network_opt) ==
    LET format == unwrap_or(format_opt, NoFormat, CashAddr)
        l      == legacy_parse(legacy)
    IN  IF l.status = "Panic" THEN Panic
        ELSE IF IsOk(l)
        THEN cash_build(self, format, l.val.network, l.val.addr_type, l.val.hash)
        ELSE LET current_format == detect_addr_format(self, keys, legacy)
             IN  IF IsOk(current_format)
                 THEN IF format = current_format.val
                      THEN Ok(legacy)
                      ELSE LET c == cash_parse(self, keys, legacy)
                           IN  IF ~IsOk(c) THEN c
                               ELSE cash_build(self, format,
                                        unwrap_or(network_opt, NoNetwork, c.val.network),
                                        c.val.addr_type, c.val.hash)
                 ELSE InvalidAddress(legacy)

\* mutant: a cash-style input is re-encoded on the network it was decoded from
to_cash_addr_with_options_cash_keeps_network(self, keys, legacy, format_opt, network_opt) ==
    LET format == unwrap_or(format_opt, NoFormat, CashAddr)
        l      == legacy_parse(legacy)
    IN  IF l.status = "Panic" THEN Panic
        ELSE IF IsOk(l)
        THEN cash_build(self, format, unwrap_or(network_opt, NoNetwork, l.val.network),
                        l.val.addr_type, l.val.hash)
        ELSE LET current_format == detect_addr_format(self, keys, legacy)
             IN  IF IsOk(current_format)
                 THEN IF format = current_format.val
                      THEN Ok(legacy)
                      ELSE LET c == cash_parse(self, keys, legacy)
                           IN  IF ~IsOk(c) THEN c
                               ELSE cash_build(self, format, c.val.network,
                                               c.val.addr_type, c.val.hash)
                 ELSE InvalidAddress(legacy)

to_cash_addr_with_options(self, keys, legacy, format_opt, network_opt) ==
    LET format == unwrap_or(format_opt, NoFormat, CashAddr)
        l      == legacy_parse(legacy)
    IN  IF l.status = "Panic" THEN Panic
        ELSE IF IsOk(l)
        THEN cash_build(self, format, unwrap_or(network_opt, NoNetwork, l.val.network),
                        l.val.addr_type, l.val.hash)
        ELSE LET current_format == detect_addr_format(self, keys, legacy)
             IN  IF IsOk(current_format)
                 THEN IF format = current_format.val
                      THEN Ok(legacy)
                      ELSE LET c == cash_parse(self, keys, legacy)
                           IN  IF ~IsOk(c) THEN c
                               ELSE cash_build(self, format,
                                        unwrap_or(network_opt, NoNetwork, c.val.network),
                                        c.val.addr_type, c.val.hash)
                 ELSE InvalidAddress(legacy)

to_cash_addr(self, keys, legacy) ==
    to_cash_addr_with_options(self, keys, legacy, NoFormat, NoNetwork)

\* mutant: a legacy input is not passed through
to_legacy_addr_cash_only(self, keys, cash) ==
    LET c == cash_parse(self, keys, cash)
    IN  IF IsOk(c)
        THEN legacy_build(c.val.network, c.val.addr_type, c.val.hash)
        ELSE InvalidAddress(cash)

to_legacy_addr(self, keys, cash) ==
    LET c == cash_parse(self, keys, cash)
    IN  IF IsOk(c)
        THEN legacy_build(c.val.network, c.val.addr_type, c.val.hash)
        ELSE LET is_legacy == is_legacy_addr(cash)
             IN  IF is_legacy.status = "Panic" THEN Panic
                 ELSE IF is_legacy.val THEN Ok(cash)
                 ELSE InvalidAddress(cash)

(***************************** inputs **************************************)
Hashes == [1..HashLen -> 0..MaxHashByte]

\* the legacy codec carries a hash of any length
LegacyHashes == Hashes \cup {<<>>}

\* the four version bytes of the table and one outside it
VersionBytes == {0, 5, 111, 196, 1}

PrefixStrings == {"bitcoincash", "bchtest", "bchreg", "simpleledger", "slptest", "BCHTEST"}

\* the same string with its last character (the checksum) changed
Corrupt(s) ==
    [s EXCEPT !.body = Front(s.body) \o <<(s.body[Len(s.body)] + 1) % CkMod>>]

LegacyStrings ==
    {bs58_encode_check(<<v>> \o h) : v \in VersionBytes, h \in LegacyHashes}
        \cup {bs58_encode_check(<<>>)}

CashStrings ==
    {cash_addr_encode(p, t, h).val : p \in PrefixStrings, t \in AddressType, h \in Hashes}

Inputs ==
    LET valid == LegacyStrings \cup CashStrings \cup {no_prefix(s) : s \in CashStrings}
    IN  valid \cup {Corrupt(s) : s \in valid}

FormatNames == {"SLP"}

FormatOptions == {NoFormat, Legacy, CashAddr} \cup {Other(n) : n \in FormatNames}

NetworkOptions == {NoNetwork} \cup Network

\* the (prefix, network) pairs a caller registers: the two SLP prefixes of the
\* tests, a second prefix for a pair that has one, a built-in prefix registered
\* again, and a prefix that checks like a built-in one
RegistrablePairs ==
    {<<"simpleledger", "Mainnet">>, <<"slptest", "Testnet">>, <<"slptest", "Mainnet">>,
     <<"bitcoincash", "Testnet">>, <<"BCHTEST", "Mainnet">>}

RECURSIVE SeqsUpTo(_, _)
SeqsUpTo(S, n) ==
    IF n = 0 THEN {<<>>}
    ELSE LET shorter == SeqsUpTo(S, n - 1)
         IN  shorter \cup {Append(q, x) : q \in shorter, x \in S}

Slices == SeqsUpTo(RegistrablePairs, MaxSlice) \ {<<>>}

(***************************** state machine *******************************)
Self == [prefix_list |-> prefix_list, prefix_inv_list |-> prefix_inv_list]

NoCall == [op |-> "none"]

\* the converter is still being built: no operation has borrowed it yet
InSetup == last.op \in {"none", "add_prefixes"}

Init ==
    /\ prefix_list = ConverterNew.prefix_list
    /\ prefix_inv_list = ConverterNew.prefix_inv_list
    /\ calls = 0
    /\ last = NoCall

\* Converter::add_prefixes consumes the converter and returns the extended one;
\* the registry is set up before the converter is used
AddPrefixes ==
    /\ InSetup
    /\ calls < MaxCalls
    /\ \E prefixes \in Slices, format_name \in FormatNames :
         LET c == add_prefixes(Self, prefixes, format_name)
         IN  /\ prefix_list' = c.prefix_list
             /\ prefix_inv_list' = c.prefix_inv_list
             /\ last' = [op |-> "add_prefixes", prefixes |-> prefixes,
                         format_name |-> format_name]
    /\ calls' = calls + 1

\* The facade's operations borrow the converter (&self) and leave no state
\* behind: each is applied to the converter as it was set up.
ToCashAddrWithOptions ==
    /\ InSetup
    /\ \E legacy \in Inputs, format \in FormatOptions, network \in NetworkOptions,
          keys \in KeyOrders(Self) :
         last' = [op |-> "to_cash_addr_with_options", arg |-> legacy,
                  format |-> format, network |-> network,
                  res |-> to_cash_addr_with_options(Self, keys, legacy, format, network)]
    /\ UNCHANGED <<prefix_list, prefix_inv_list, calls>>

ToLegacyAddr ==
    /\ InSetup
    /\ \E cash \in Inputs, keys \in KeyOrders(Self) :
         last' = [op |-> "to_legacy_addr", arg |-> cash,
                  res |-> to_legacy_addr(Self, keys, cash)]
    /\ UNCHANGED <<prefix_list, prefix_inv_list, calls>>

Parse ==
    /\ InSetup
    /\ \E addr \in Inputs, keys \in KeyOrders(Self) :
         last' = [op |-> "parse", arg |-> addr, res |-> parse(Self, keys, addr)]
    /\ UNCHANGED <<prefix_list, prefix_inv_list, calls>>

\* the legacy adapter is stateless: its two functions, applied on their own
LegacyParse ==
    /\ InSetup
    /\ \E addr \in Inputs :
         last' = [op |-> "legacy_parse", arg |-> addr, res |-> legacy_parse(addr)]
    /\ UNCHANGED <<prefix_list, prefix_inv_list, calls>>

LegacyBuild ==
    /\ InSetup
    /\ \E network \in Network, addr_type \in AddressType, hash \in LegacyHashes :
         last' = [op |-> "legacy_build", network |-> network, addr_type |-> addr_type,
                  hash |-> hash, res |-> legacy_build(network, addr_type, hash)]
    /\ UNCHANGED <<prefix_list, prefix_inv_list, calls>>

\* CashConverter::parse, the cash-style decode the facade calls
CashParse ==
    /\ InSetup
    /\ \E addr \in Inputs, keys \in KeyOrders(Self) :
         last' = [op |-> "cash_parse", arg |-> addr, res |-> cash_parse(Self, keys, addr)]
    /\ UNCHANGED <<prefix_list, prefix_inv_list, calls>>

\* the boolean predicates of the facade
IsCashAddr ==
    /\ InSetup
    /\ \E addr \in Inputs, keys \in KeyOrders(Self) :
         last' = [op |-> "is_cash_addr", arg |-> addr,
                  res |-> Ok(is_cash_addr(Self, keys, addr))]
    /\ UNCHANGED <<prefix_list, prefix_inv_list, calls>>

IsLegacyAddr ==
    /\ InSetup
    /\ \E addr \in Inputs :
         last' = [op |-> "is_legacy_addr", arg |-> addr, res |-> is_legacy_addr(addr)]
    /\ UNCHANGED <<prefix_list, prefix_inv_list, calls>>

IsMainnetAddr ==
    /\ InSetup
    /\ \E addr \in Inputs, keys \in KeyOrders(Self) :
         last' = [op |-> "is_mainnet_addr", arg |-> addr,
                  res |-> is_mainnet_addr(Self, keys, addr)]
    /\ UNCHANGED <<prefix_list, prefix_inv_list, calls>>

IsTestnetAddr ==
    /\ InSetup
    /\ \E addr \in Inputs, keys \in KeyOrders(Self) :
         last' = [op |-> "is_testnet_addr", arg |-> addr,
                  res |-> is_testnet_addr(Self, keys, addr)]
    /\ UNCHANGED <<prefix_list, prefix_inv_list, calls>>

IsRegtestAddr ==
    /\ InSetup
    /\ \E addr \in Inputs, keys \in KeyOrders(Self) :
         last' = [op |-> "is_regtest_addr", arg |-> addr,
                  res |-> is_regtest_addr(Self, keys, addr)]
    /\ UNCHANGED <<prefix_list, prefix_inv_list, calls>>

IsP2pkhAddr ==
    /\ InSetup
    /\ \E addr \in Inputs, keys \in KeyOrders(Self) :
         last' = [op |-> "is_p2pkh_addr", arg |-> addr,
                  res |-> is_p2pkh_addr(Self, keys, addr)]
    /\ UNCHANGED <<prefix_list, prefix_inv_list, calls>>

IsP2shAddr ==
    /\ InSetup
    /\ \E addr \in Inputs, keys \in KeyOrders(Self) :
         last' = [op |-> "is_p2sh_addr", arg |-> addr,
                  res |-> is_p2sh_addr(Self, keys, addr)]
    /\ UNCHANGED <<prefix_list, prefix_inv_list, calls>>

Next ==
    \/ AddPrefixes
    \/ ToCashAddrWithOptions
    \/ ToLegacyAddr
    \/ Parse
    \/ LegacyParse
    \/ LegacyBuild
    \/ CashParse
    \/ IsCashAddr
    \/ IsLegacyAddr
    \/ IsMainnetAddr
    \/ IsTestnetAddr
    \/ IsRegtestAddr
    \/ IsP2pkhAddr
    \/ IsP2shAddr

Spec == Init /\ [][Next]_vars

(***************************** claims **************************************)
\* a legacy address as the tests use them: a version byte of the table and a
\* hash of the length the cash-style codec accepts
ValidLegacy(a) ==
    LET l == legacy_parse(a) IN IsOk(l) /\ Len(l.val.hash) = HashLen

IsToCashAddr == last.op = "to_cash_addr_with_options"

\* the converter is the one Converter::new returns
IsDefaultConverter == Self = ConverterNew

\* Converter::to_cash_addr: no format and no network option
IsPlainToCashAddr == IsToCashAddr /\ last.format = NoFormat /\ last.network = NoNetwork

\* C1 (as claimed): for every converter, built by Converter::new and any
\* add_prefixes calls, and every valid legacy address a, to_cash_addr(a)
\* succeeds, to_legacy_addr of its result is a again, and to_cash_addr of that
\* is the same cash-style address.
C1_LegacyRoundTrip ==
    (IsPlainToCashAddr /\ ValidLegacy(last.arg)) =>
        /\ IsOk(last.res)
        /\ \A keys \in KeyOrders(Self) :
             /\ to_legacy_addr(Self, keys, last.res.val) = Ok(last.arg)
             /\ to_cash_addr(Self, keys, last.arg) = last.res

\* C1 on the converters whose inverse map agrees with the forward map
RegistryConsistent ==
    \A d \in DOMAIN prefix_inv_list :
        /\ prefix_inv_list[d] \in DOMAIN prefix_list
        /\ prefix_list[prefix_inv_list[d]] = d

C1_LegacyRoundTripConsistent == RegistryConsistent => C1_LegacyRoundTrip

C1_Refuted ==
    /\ IsPlainToCashAddr /\ ValidLegacy(last.arg) /\ IsOk(last.res)
    /\ \E keys \in KeyOrders(Self) :
         to_legacy_addr(Self, keys, last.res.val) # Ok(last.arg)

\* a cash-style address written with a prefix the converter has registered
RegisteredCash(c) == c.sep /\ IsOk(parse_with_prefix(Self, c))

\* C2 (as claimed): for every cash-style address c whose prefix is registered,
\* to_legacy_addr(to_cash_addr(c)) == c.  Stated for the converter that
\* Converter::new returns, where it already fails.
C2_CashRoundTripAsClaimed ==
    (IsDefaultConverter /\ IsPlainToCashAddr /\ RegisteredCash(last.arg)) =>
        /\ IsOk(last.res)
        /\ \A keys \in KeyOrders(Self) :
             to_legacy_addr(Self, keys, last.res.val) = Ok(last.arg)

\* C2 (amended): for every cash-style address c written with a registered
\* prefix, to_legacy_addr(to_cash_addr(c)) is not c but a legacy address with
\* the address type and hash of c; when the prefix of c is registered under
\* CashAddr it is the legacy encoding of the network (Regtest as Testnet), type
\* and hash of c, which is to_legacy_addr(c).
C2_CashToLegacy ==
    (IsPlainToCashAddr /\ RegisteredCash(last.arg)) =>
        LET c == parse_with_prefix(Self, last.arg).val
        IN  /\ IsOk(last.res)
            /\ \A keys \in KeyOrders(Self) :
                 LET back == to_legacy_addr(Self, keys, last.res.val)
                 IN  /\ IsOk(back)
                     /\ back.val # last.arg
                     /\ LET l == legacy_parse(back.val)
                        IN  /\ IsOk(l)
                            /\ l.val.addr_type = c.addr_type
                            /\ l.val.hash = c.hash
                     /\ c.format = CashAddr =>
                          /\ back = legacy_build(c.network, c.addr_type, c.hash)
                          /\ back = to_legacy_addr(Self, keys, last.arg)

C2_Witness ==
    /\ IsPlainToCashAddr /\ RegisteredCash(last.arg) /\ IsOk(last.res)
    /\ parse_with_prefix(Self, last.arg).val.format = Other("SLP")
    /\ parse_with_prefix(Self, last.arg).val.network = "Mainnet"
    /\ \E keys \in KeyOrders(Self) :
         to_legacy_addr(Self, keys, last.res.val)
            = legacy_build("Mainnet", "P2SH", parse_with_prefix(Self, last.arg).val.hash)

\* the format the call converts to
TargetFormat == unwrap_or(last.format, NoFormat, CashAddr)

\* x is valid under a registered prefix of format f: its own prefix when it is
\* written with one, any registered prefix when it is not
CashStyleOfFormat(x, f) ==
    \E p \in DOMAIN prefix_list :
        /\ prefix_list[p].format = f
        /\ x.sep => x.prefix = p
        /\ IsOk(parse_with_prefix(Self, IF x.sep THEN x ELSE format_with_prefix(p, x)))

\* C3 (as claimed): whenever x is a cash-style address, with or without its
\* prefix, whose registered format equals the target format,
\* to_cash_addr_with_options returns exactly x, whatever the network argument.
\* Stated for the converter that Converter::new returns, where it already fails.
C3_IdempotentAsClaimed ==
    (IsDefaultConverter /\ IsToCashAddr /\ CashStyleOfFormat(last.arg, TargetFormat)) => last.res = Ok(last.arg)

\* C3 (amended): whenever detect_addr_format(x) reports a cash-style format
\* equal to the target format (so x is not also a valid legacy string, and the
\* registered prefix that first validates a prefix-less x has that format),
\* to_cash_addr_with_options returns exactly x, whatever the network argument.
C3_IdempotentWhenDetected ==
    (IsToCashAddr /\ TargetFormat # Legacy) =>
        /\ \A keys \in KeyOrders(Self) :
             detect_addr_format(Self, keys, last.arg) = Ok(TargetFormat) =>
                to_cash_addr_with_options(Self, keys, last.arg, last.format, last.network)
                    = Ok(last.arg)
        /\ (\A keys \in KeyOrders(Self) :
                detect_addr_format(Self, keys, last.arg) = Ok(TargetFormat))
              => last.res = Ok(last.arg)

C3_Witness ==
    /\ IsToCashAddr /\ last.format = Other("SLP") /\ last.network = "Regtest"
    /\ ~last.arg.sep
    /\ \A keys \in KeyOrders(Self) :
         /\ detect_addr_format(Self, keys, last.arg) = Ok(Other("SLP"))
         /\ detect_addr_network(Self, keys, last.arg) = Ok("Mainnet")
    /\ last.res = Ok(last.arg)

\* C4 (as claimed): for every x with is_legacy_addr(x) true,
\* to_legacy_addr(x) returns exactly x.  Stated for the converter that
\* Converter::new returns, where it already fails.
C4_LegacyIdempotentAsClaimed ==
    (IsDefaultConverter /\ last.op = "to_legacy_addr" /\ is_legacy_addr(last.arg) = Ok(TRUE))
        => last.res = Ok(last.arg)

\* C4 (amended): for every x with is_legacy_addr(x) true and is_cash_addr(x)
\* false, to_legacy_addr(x) returns exactly x.
C4_LegacyIdempotent ==
    (/\ last.op = "to_legacy_addr"
     /\ is_legacy_addr(last.arg) = Ok(TRUE)
     /\ \A keys \in KeyOrders(Self) : ~is_cash_addr(Self, keys, last.arg))
        => last.res = Ok(last.arg)

C4_Witness ==
    /\ last.op = "to_legacy_addr"
    /\ is_legacy_addr(last.arg) = Ok(TRUE)
    /\ legacy_parse(last.arg).val.network = "Testnet"
    /\ \A keys \in KeyOrders(Self) : ~is_cash_addr(Self, keys, last.arg)
    /\ last.res = Ok(last.arg)

\* C5: on the converter Converter::new returns, for every legacy Testnet
\* address a, to_cash_addr_with_options(a, None, Some(Regtest)) is an address
\* with the prefix bchreg that decodes to (CashAddr, Regtest) and the type and
\* hash of a, and to_legacy_addr of it, with or without its prefix, is a.
C5_NetworkFidelity ==
    (/\ IsDefaultConverter
     /\ IsToCashAddr /\ last.format = NoFormat /\ last.network = "Regtest"
     /\ ValidLegacy(last.arg)
     /\ legacy_parse(last.arg).val.network = "Testnet") =>
        LET a == legacy_parse(last.arg).val
        IN  /\ IsOk(last.res)
            /\ last.res.val.sep
            /\ last.res.val.prefix = "bchreg"
            /\ \A keys \in KeyOrders(Self) :
                 /\ cash_parse(Self, keys, last.res.val)
                       = Ok(Parsed(CashAddr, "Regtest", a.addr_type, a.hash))
                 /\ to_legacy_addr(Self, keys, last.res.val) = Ok(last.arg)
                 /\ to_legacy_addr(Self, keys, no_prefix(last.res.val)) = Ok(last.arg)

C5_Witness ==
    /\ IsDefaultConverter
    /\ IsToCashAddr /\ last.format = NoFormat /\ last.network = "Regtest"
    /\ ValidLegacy(last.arg)
    /\ legacy_parse(last.arg).val.network = "Testnet"
    /\ legacy_parse(last.arg).val.addr_type = "P2SH"
    /\ IsOk(last.res) /\ last.res.val.prefix = "bchreg"
    /\ \E keys \in KeyOrders(Self) :
         to_legacy_addr(Self, keys, no_prefix(last.res.val)) = Ok(last.arg)

\* the registered prefixes under which the payload of x decodes
ValidatingPrefixes(x) ==
    {p \in DOMAIN prefix_list : IsOk(parse_with_prefix(Self, format_with_prefix(p, x)))}

\* C6: for every registered prefix p and valid cash-style address p:payload
\* such that no other registered prefix validates payload,
\* CashConverter::parse(payload) equals CashConverter::parse(p:payload) and
\* to_legacy_addr gives the same result for both forms.
C6_PrefixOmission ==
    (/\ last.op = "to_legacy_addr"
     /\ RegisteredCash(last.arg)
     /\ ValidatingPrefixes(last.arg) = {last.arg.prefix}) =>
        \A keys \in KeyOrders(Self) :
            /\ cash_parse(Self, keys, no_prefix(last.arg)) = cash_parse(Self, keys, last.arg)
            /\ IsOk(cash_parse(Self, keys, last.arg))
            /\ to_legacy_addr(Self, keys, no_prefix(last.arg)) = last.res

C6_Witness ==
    /\ last.op = "to_legacy_addr"
    /\ RegisteredCash(last.arg)
    /\ ValidatingPrefixes(last.arg) = {"slptest"}
    /\ "BCHTEST" \in DOMAIN prefix_list
    /\ IsOk(last.res)
    /\ \A keys \in KeyOrders(Self) :
         to_legacy_addr(Self, keys, no_prefix(last.arg)) = last.res

\* the registration of the test slp_convert
SlpPrefixes == <<<<"simpleledger", "Mainnet">>, <<"slptest", "Testnet">>>>

SlpConverter == add_prefixes(ConverterNew, SlpPrefixes, "SLP")

\* C7: after add_prefixes([(simpleledger, Mainnet), (slptest, Testnet)], "SLP")
\* on a new converter, converting a valid legacy address to Other("SLP") with no
\* network override gives an address with the SLP prefix of its network
\* (simpleledger for mainnet, slptest for testnet), never a built-in prefix,
\* and to_legacy_addr of that address is the original legacy string.
C7_NamespaceIsolation ==
    (/\ Self = SlpConverter
     /\ IsToCashAddr /\ last.format = Other("SLP") /\ last.network = NoNetwork
     /\ ValidLegacy(last.arg)) =>
        /\ IsOk(last.res)
        /\ last.res.val.sep
        /\ last.res.val.prefix =
             (IF legacy_parse(last.arg).val.network = "Mainnet"
              THEN "simpleledger" ELSE "slptest")
        /\ last.res.val.prefix \notin DOMAIN ConverterNew.prefix_list
        /\ \A keys \in KeyOrders(Self) :
             to_legacy_addr(Self, keys, last.res.val) = Ok(last.arg)

C7_Witness ==
    /\ Self = SlpConverter
    /\ IsToCashAddr /\ last.format = Other("SLP") /\ last.network = NoNetwork
    /\ ValidLegacy(last.arg)
    /\ legacy_parse(last.arg).val.network = "Testnet"
    /\ IsOk(last.res) /\ last.res.val.prefix = "slptest"

\* C8: Converter::parse tries the legacy decode first: an input that decodes
\* as legacy is reported as legacy (format Legacy, by parse and by the detect_*
\* projections) also when it decodes as cash-style under a registered prefix,
\* and a cash-style result is returned only when the legacy decode failed.
C8_ParsePriority ==
    (last.op = "parse") =>
        /\ IsOk(legacy_parse(last.arg)) =>
             /\ last.res = legacy_parse(last.arg)
             /\ last.res.val.format = Legacy
             /\ \A keys \in KeyOrders(Self) :
                  /\ detect_addr_format(Self, keys, last.arg) = Ok(Legacy)
                  /\ detect_addr_network(Self, keys, last.arg)
                        = Ok(legacy_parse(last.arg).val.network)
                  /\ detect_addr_type(Self, keys, last.arg)
                        = Ok(legacy_parse(last.arg).val.addr_type)
        /\ (IsOk(last.res) /\ last.res.val.format # Legacy) =>
             legacy_parse(last.arg).status = "Err"

\* an input valid under both interpretations, which differ in the network
C8_Witness ==
    /\ last.op = "parse"
    /\ IsOk(legacy_parse(last.arg))
    /\ \E keys \in KeyOrders(Self) :
         /\ IsOk(cash_parse(Self, keys, last.arg))
         /\ cash_parse(Self, keys, last.arg).val.network # last.res.val.network
    /\ last.res.val.format = Legacy

\* C9: for every checksum-valid legacy string with first decoded byte v,
\* legacy parse returns (Legacy, Mainnet, P2PKH) for 0x00, (Legacy, Mainnet,
\* P2SH) for 0x05, (Legacy, Testnet, P2PKH) for 0x6f, (Legacy, Testnet, P2SH)
\* for 0xc4, each with the remaining bytes as hash, and UnknownLegacyPrefix(v)
\* for every other v; it never returns Regtest.
C9_VersionTable ==
    (last.op = "legacy_parse") =>
        LET data == bs58_decode_check(last.arg)
        IN  /\ (IsOk(data) /\ Len(data.val) > 0) =>
                 LET v == data.val[1]
                     h == SubSeq(data.val, 2, Len(data.val))
                 IN  /\ v = 0 => last.res = Ok(Parsed(Legacy, "Mainnet", "P2PKH", h))
                     /\ v = 5 => last.res = Ok(Parsed(Legacy, "Mainnet", "P2SH", h))
                     /\ v = 111 => last.res = Ok(Parsed(Legacy, "Testnet", "P2PKH", h))
                     /\ v = 196 => last.res = Ok(Parsed(Legacy, "Testnet", "P2SH", h))
                     /\ v \notin {0, 5, 111, 196} => last.res = UnknownLegacyPrefix(v)
            /\ IsOk(last.res) => last.res.val.network # "Regtest"

C9_Witness ==
    /\ last.op = "legacy_parse"
    /\ IsOk(bs58_decode_check(last.arg))
    /\ last.res = UnknownLegacyPrefix(1)

\* C10: for every network n, type t and hash h, legacy build(n, t, h) is Ok,
\* legacy parse of it is (Legacy, n', t, h) with n' = Testnet for n = Regtest
\* and n' = n otherwise, and build(Regtest, t, h) = build(Testnet, t, h).
C10_LegacyBuildRoundTrip ==
    (last.op = "legacy_build") =>
        /\ IsOk(last.res)
        /\ legacy_parse(last.res.val) =
             Ok(Parsed(Legacy,
                       IF last.network = "Regtest" THEN "Testnet" ELSE last.network,
                       last.addr_type, last.hash))
        /\ last.network = "Regtest" =>
             last.res = legacy_build("Testnet", last.addr_type, last.hash)

C10_Witness ==
    /\ last.op = "legacy_build"
    /\ last.network = "Regtest" /\ last.addr_type = "P2SH" /\ Len(last.hash) = HashLen
    /\ IsOk(last.res)
    /\ legacy_parse(last.res.val).val.network = "Testnet"

\* the call recorded in `last`, made again with the keys visited in order `keys`
Replay(keys) ==
    CASE last.op = "parse" -> parse(Self, keys, last.arg)
      [] last.op = "to_legacy_addr" -> to_legacy_addr(Self, keys, last.arg)
      [] last.op = "to_cash_addr_with_options" ->
            to_cash_addr_with_options(Self, keys, last.arg, last.format, last.network)
      [] OTHER -> last.res

\* C11 (as claimed): for the same registry contents and the same input,
\* CashConverter::parse of a prefix-less input returns the same (format,
\* network, type, hash) whatever order the keys of the forward map come in,
\* also when the payload validates under more than one registered prefix, and
\* every facade call returns the same result as well.
C11_DeterministicOrder ==
    (last.op \in {"parse", "to_legacy_addr", "to_cash_addr_with_options"}) =>
        \A k1, k2 \in KeyOrders(Self) :
            /\ cash_parse(Self, k1, last.arg) = cash_parse(Self, k2, last.arg)
            /\ Replay(k1) = last.res

\* C11 where it does hold: an input that at most one registered prefix validates
C11_DeterministicWhenUnambiguous ==
    (/\ last.op \in {"parse", "to_legacy_addr", "to_cash_addr_with_options"}
     /\ Cardinality(ValidatingPrefixes(last.arg)) <= 1) =>
        \A k1, k2 \in KeyOrders(Self) :
            /\ cash_parse(Self, k1, last.arg) = cash_parse(Self, k2, last.arg)
            /\ Replay(k1) = last.res

\* a prefix-less payload valid under two prefixes of different networks, which
\* to_legacy_addr turns into two different legacy addresses
C11_Refuted ==
    /\ last.op = "to_legacy_addr" /\ ~last.arg.sep
    /\ Cardinality(ValidatingPrefixes(last.arg)) = 2
    /\ legacy_parse(last.arg).status = "Err"
    /\ \E k \in KeyOrders(Self) : IsOk(Replay(k)) /\ Replay(k) # last.res

IsFacadeCall == last.op \in {"parse", "to_legacy_addr", "to_cash_addr_with_options"}

\* the input decodes, as legacy or under some registered prefix
Decodes(x) == IsOk(legacy_parse(x)) \/ \E keys \in KeyOrders(Self) : IsOk(cash_parse(Self, keys, x))

\* C12 (as claimed): whenever parse, to_legacy_addr or
\* to_cash_addr_with_options returns an error, the error is InvalidAddress
\* carrying the input string.  Stated for the converter that Converter::new
\* returns, where it already fails.
C12_ErrorCollapsingAsClaimed ==
    (IsDefaultConverter /\ IsFacadeCall /\ last.res.status = "Err") =>
        last.res = InvalidAddress(last.arg)

\* C12 (amended): an error of parse or to_legacy_addr is InvalidAddress
\* carrying the input.  to_cash_addr_with_options returns InvalidAddress
\* carrying the input exactly when the input decodes under neither
\* interpretation; for an input that decodes its errors are those of
\* CashConverter::build: UnknownCashFormat(f, n) for the target format f and a
\* network n without a prefix registered under f, or the cash_addr codec's
\* error for a hash it does not encode.  Bs58, UnknownLegacyPrefix and
\* UnknownCashPrefix escape none of the three.
C12_ErrorKinds ==
    (IsFacadeCall /\ last.res.status = "Err") =>
        /\ last.op \in {"parse", "to_legacy_addr"} => last.res = InvalidAddress(last.arg)
        /\ last.op = "to_cash_addr_with_options" =>
             IF Decodes(last.arg)
             THEN \/ /\ last.res.kind = "UnknownCashFormat"
                     /\ last.res.format = TargetFormat
                     /\ last.network # NoNetwork => last.res.network = last.network
                     /\ PrefixDetails(last.res.format, last.res.network)
                            \notin DOMAIN prefix_inv_list
                  \/ /\ last.res = CashAddrError
                     /\ IsOk(legacy_parse(last.arg))
                     /\ Len(legacy_parse(last.arg).val.hash) # HashLen
             ELSE last.res = InvalidAddress(last.arg)

\* a legacy address converted to a format that has no prefix for its network
C12_Witness ==
    /\ last.op = "to_cash_addr_with_options"
    /\ ValidLegacy(last.arg)
    /\ last.format = Other("SLP") /\ last.network = NoNetwork
    /\ last.res = UnknownCashFormat(Other("SLP"), legacy_parse(last.arg).val.network)

NetworkPredicates ==
    [is_mainnet_addr |-> "Mainnet", is_testnet_addr |-> "Testnet", is_regtest_addr |-> "Regtest"]

TypePredicates == [is_p2pkh_addr |-> "P2PKH", is_p2sh_addr |-> "P2SH"]

IsPredicateCall ==
    last.op \in {"is_cash_addr", "is_legacy_addr"}
                  \cup DOMAIN NetworkPredicates \cup DOMAIN TypePredicates

\* what the claim says a predicate returns: a boolean, which for the network
\* and type predicates is false when Converter::parse fails and otherwise
\* tells whether the parsed network (type) is the one the predicate names
PredicateAsSpecified ==
    /\ last.res \in {Ok(TRUE), Ok(FALSE)}
    /\ last.op \in DOMAIN NetworkPredicates =>
         \E keys \in KeyOrders(Self) :
             LET r == parse(Self, keys, last.arg)
             IN  last.res = Ok(IsOk(r) /\ r.val.network = NetworkPredicates[last.op])
    /\ last.op \in DOMAIN TypePredicates =>
         \E keys \in KeyOrders(Self) :
             LET r == parse(Self, keys, last.arg)
             IN  last.res = Ok(IsOk(r) /\ r.val.addr_type = TypePredicates[last.op])

\* C13 (as claimed): for every input, each of the seven predicates returns a
\* boolean; the network and type predicates return false whenever
\* Converter::parse fails and otherwise true exactly when the parsed network
\* (type) is the one the predicate names.
C13_PredicatesTotal == IsPredicateCall => PredicateAsSpecified

\* C13 on the inputs on which legacy_converter::parse does not abort
C13_PredicatesWhenNoPanic ==
    (IsPredicateCall /\ legacy_parse(last.arg).status # "Panic") => PredicateAsSpecified

\* a predicate that aborts instead of returning a boolean
C13_Refuted == IsPredicateCall /\ last.op # "is_cash_addr" /\ last.res = Panic

\* C14 (as claimed): for every input, also a Base58Check-valid string whose
\* payload is empty, legacy parse and every facade operation built on it ends
\* with an Ok or Err value or a boolean; none aborts.
C14_NoPanic == ~InSetup => last.res.status \in {"Ok", "Err"}

\* C14 on the inputs whose Base58Check payload holds a version byte
C14_NoPanicWithVersionByte ==
    (/\ ~InSetup /\ last.op # "legacy_build"
     /\ bs58_decode_check(last.arg) # Ok(<<>>)) => last.res.status \in {"Ok", "Err"}

\* the checksum-valid string with no payload aborts legacy parse
C14_Refuted ==
    /\ last.op = "legacy_parse"
    /\ last.arg = bs58_encode_check(<<>>)
    /\ last.res = Panic

BuiltInPrefixes ==
    [bitcoincash |-> PrefixDetails(CashAddr, "Mainnet"),
     bchtest     |-> PrefixDetails(CashAddr, "Testnet"),
     bchreg      |-> PrefixDetails(CashAddr, "Regtest")]

\* the positions of a slice that register prefix p
Registrations(prefixes, p) == {i \in 1..Len(prefixes) : prefixes[i][1] = p}

Latest(S) == CHOOSE i \in S : \A j \in S : j <= i

\* the converter after the step
SelfNext == [prefix_list |-> prefix_list', prefix_inv_list |-> prefix_inv_list']

\* every checksum-valid address written with prefix p decodes to the pair d
DecodesAs(self, p, d) ==
    \A t \in AddressType, h \in Hashes, keys \in KeyOrders(self) :
        cash_parse(self, keys, cash_addr_encode(p, t, h).val)
            = Ok(Parsed(d.format, d.network, t, h))

\* C15: a new converter binds the three built-in prefixes, and every
\* add_prefixes call leaves each prefix of the forward map bound to one pair:
\* the pair of its last registration in the call when the call registers it,
\* its earlier binding when the call does not; an address with that explicit
\* prefix decodes to exactly that pair.
C15_LastRegistrationWins ==
    /\ prefix_list = BuiltInPrefixes
    /\ [][last'.op = "add_prefixes" =>
            /\ DOMAIN prefix_list' =
                 DOMAIN prefix_list \cup {last'.prefixes[i][1] : i \in DOMAIN last'.prefixes}
            /\ \A p \in DOMAIN prefix_list' :
                 LET regs == Registrations(last'.prefixes, p)
                     d    == IF regs # {}
                             THEN PrefixDetails(Other(last'.format_name),
                                                last'.prefixes[Latest(regs)][2])
                             ELSE prefix_list[p]
                 IN  /\ prefix_list'[p] = d
                     /\ DecodesAs(SelfNext, p, d)]_vars

\* one call registers slptest twice, and a built-in prefix is bound again
C15_Witness ==
    /\ last.op = "add_prefixes"
    /\ last.prefixes = <<<<"slptest", "Testnet">>, <<"slptest", "Mainnet">>>>
    /\ prefix_list["slptest"] = PrefixDetails(Other("SLP"), "Mainnet")
    /\ prefix_list["bitcoincash"] = PrefixDetails(Other("SLP"), "Testnet")

\* the positions of a slice that register a prefix for network n
RegistrationsFor(prefixes, n) == {i \in 1..Len(prefixes) : prefixes[i][2] = n}

\* the prefixes registered for the pair d before the one that is now the
\* latest: earlier in the call's slice, or canonical before the call
EarlierPrefixes(prefixes, d) ==
    {prefixes[i][1] : i \in RegistrationsFor(prefixes, d.network)}
        \cup (IF d \in DOMAIN prefix_inv_list THEN {prefix_inv_list[d]} ELSE {})

\* C16: after an add_prefixes call the inverse map gives each pair one
\* canonical prefix, which CashConverter::build uses.  For a pair
\* (Other(name), network) the call registers it is the prefix the call
\* registers last for it, whether the earlier prefix of the pair comes from
\* the same call or from an earlier one; an earlier prefix that is still
\* registered for the pair keeps decoding to it.  A pair the call does not
\* register keeps its canonical prefix.
C16_CanonicalPrefix ==
    [][last'.op = "add_prefixes" =>
        \A n \in Network :
            LET prefixes == last'.prefixes
                d    == PrefixDetails(Other(last'.format_name), n)
                regs == RegistrationsFor(prefixes, n)
            IN  IF regs = {}
                THEN d \in DOMAIN prefix_inv_list =>
                        /\ d \in DOMAIN prefix_inv_list'
                        /\ prefix_inv_list'[d] = prefix_inv_list[d]
                ELSE LET p2 == prefixes[Latest(regs)][1]
                     IN  /\ d \in DOMAIN prefix_inv_list'
                         /\ prefix_inv_list'[d] = p2
                         /\ \A t \in AddressType, h \in Hashes :
                              cash_build(SelfNext, d.format, n, t, h)
                                  = cash_addr_encode(p2, t, h)
                         /\ \A p1 \in EarlierPrefixes(prefixes, d) :
                              LET r1 == Registrations(prefixes, p1)
                              IN  (/\ r1 = {} => prefix_list[p1] = d
                                   /\ r1 # {} => prefixes[Latest(r1)][2] = n)
                                    => DecodesAs(SelfNext, p1, d)]_vars

\* simpleledger, then in a second call slptest, registered for (SLP, Mainnet)
C16_Witness ==
    /\ last.op = "add_prefixes" /\ calls = 2
    /\ last.prefixes = <<<<"slptest", "Mainnet">>>>
    /\ prefix_inv_list[PrefixDetails(Other("SLP"), "Mainnet")] = "slptest"
    /\ "simpleledger" \in DOMAIN prefix_list
    /\ prefix_list["simpleledger"] = PrefixDetails(Other("SLP"), "Mainnet")
    /\ \A keys \in KeyOrders(Self) :
         IsOk(cash_parse(Self, keys, cash_addr_encode("simpleledger", "P2PKH", <<0>>).val))

\* C17: Converter::new registers exactly bitcoincash, bchtest and bchreg under
\* CashAddr with their networks, in both maps; every step keeps every key of
\* the forward map and every pair of the inverse map, and an add_prefixes call
\* adds the prefixes and the pairs it registers.
C17_RegistryGrows ==
    /\ prefix_list = BuiltInPrefixes
    /\ DOMAIN prefix_inv_list = {PrefixDetails(CashAddr, n) : n \in Network}
    /\ \A p \in DOMAIN prefix_list : prefix_inv_list[prefix_list[p]] = p
    /\ [][/\ DOMAIN prefix_list \subseteq DOMAIN prefix_list'
          /\ DOMAIN prefix_inv_list \subseteq DOMAIN prefix_inv_list'
          /\ last'.op = "add_prefixes" =>
               \A i \in DOMAIN last'.prefixes :
                   /\ last'.prefixes[i][1] \in DOMAIN prefix_list'
                   /\ PrefixDetails(Other(last'.format_name), last'.prefixes[i][2])
                          \in DOMAIN prefix_inv_list']_vars

\* two calls have added three prefixes and two pairs to the built-in ones
C17_Witness ==
    /\ last.op = "add_prefixes" /\ calls = 2
    /\ Cardinality(DOMAIN prefix_list) = 6
    /\ Cardinality(DOMAIN prefix_inv_list) = 5
    /\ DOMAIN BuiltInPrefixes \subseteq DOMAIN prefix_list

\* C18: CashConverter::parse of an input with a separator is the one decode
\* under the input's own prefix, whatever other prefixes are registered: the
\* codec's error when the codec rejects the string, UnknownCashPrefix(prefix)
\* when the codec accepts it and the prefix is not a key of the forward map,
\* the prefix's pair with the decoded type and hash otherwise.  Of an input
\* without separator that no registered prefix validates it is InvalidAddress
\* carrying the input.
C18_ExplicitPrefixDecode ==
    (last.op = "cash_parse") =>
        IF last.arg.sep
        THEN LET d == cash_addr_decode(last.arg)
             IN  /\ ~IsOk(d) => last.res = CashAddrError
                 /\ (IsOk(d) /\ d.val.prefix \notin DOMAIN prefix_list) =>
                        /\ last.res = UnknownCashPrefix(last.arg.prefix)
                        /\ last.res # CashAddrError
                 /\ (IsOk(d) /\ d.val.prefix \in DOMAIN prefix_list) =>
                        last.res = Ok(Parsed(prefix_list[d.val.prefix].format,
                                             prefix_list[d.val.prefix].network,
                                             d.val.addr_type, d.val.hash))
        ELSE ValidatingPrefixes(last.arg) = {} => last.res = InvalidAddress(last.arg)

\* the checksum fails under the input's own prefix and holds under another
\* registered one, which is not tried
C18_Witness ==
    /\ last.op = "cash_parse"
    /\ last.arg.sep /\ last.arg.prefix \in DOMAIN prefix_list
    /\ ValidatingPrefixes(no_prefix(last.arg)) # {}
    /\ last.res = CashAddrError

\* a checksum-valid address whose prefix is not registered
C18_WitnessUnknownPrefix ==
    /\ last.op = "cash_parse"
    /\ last.res = UnknownCashPrefix("simpleledger")

\* what the claim says the conversion of an input that decodes to r returns
ConversionOf(r) ==
    cash_build(Self, TargetFormat, unwrap_or(last.network, NoNetwork, r.network),
               r.addr_type, r.hash)

\* C19: for every input that decodes, as legacy or as cash-style of a format
\* other than the target format f, to network n0, type t and hash h,
\* to_cash_addr_with_options is CashConverter::build(f, n, t, h) with n the
\* network argument, or n0 when it is None: an address with the canonical
\* prefix of (f, n) and type t and hash h, or UnknownCashFormat(f, n) when
\* (f, n) has no prefix.
C19_RealConversion ==
    IsToCashAddr =>
        /\ \A keys \in KeyOrders(Self) :
             LET r == parse(Self, keys, last.arg)
             IN  (IsOk(r) /\ r.val.format # TargetFormat) =>
                    to_cash_addr_with_options(Self, keys, last.arg, last.format, last.network)
                        = ConversionOf(r.val)
        /\ \E keys \in KeyOrders(Self) :
             LET r == parse(Self, keys, last.arg)
                 n == unwrap_or(last.network, NoNetwork, r.val.network)
                 d == PrefixDetails(TargetFormat, n)
             IN  (IsOk(r) /\ r.val.format # TargetFormat) =>
                    /\ last.res = ConversionOf(r.val)
                    /\ d \notin DOMAIN prefix_inv_list =>
                         last.res = UnknownCashFormat(TargetFormat, n)
                    /\ IsOk(last.res) =>
                         /\ d \in DOMAIN prefix_inv_list
                         /\ cash_addr_decode(last.res.val) =
                              Ok([prefix |-> prefix_inv_list[d],
                                  addr_type |-> r.val.addr_type, hash |-> r.val.hash])

\* a prefix-less cash-style address of format CashAddr converted to SLP on
\* another network
C19_Witness ==
    /\ IsToCashAddr
    /\ ~last.arg.sep /\ legacy_parse(last.arg).status = "Err"
    /\ last.format = Other("SLP") /\ last.network = "Mainnet"
    /\ \A keys \in KeyOrders(Self) :
         /\ detect_addr_format(Self, keys, last.arg) = Ok(CashAddr)
         /\ detect_addr_network(Self, keys, last.arg) = Ok("Regtest")
    /\ IsOk(last.res) /\ last.res.val.prefix = "simpleledger"

\* the converter is Converter::new extended with prefixes other than the
\* built-in ones
ExtendedConverter ==
    /\ calls > 0
    /\ \A p \in DOMAIN BuiltInPrefixes : prefix_list[p] = BuiltInPrefixes[p]

\* a checksum-valid address of a built-in prefix, written with or without it
BuiltInCash(x) ==
    \E p \in DOMAIN BuiltInPrefixes :
        /\ x.sep => x.prefix = p
        /\ IsOk(cash_addr_decode(IF x.sep THEN x ELSE format_with_prefix(p, x)))

\* the call recorded in `last`, made on the converter Converter::new returns
OnDefault(keys) ==
    IF last.op = "to_legacy_addr"
    THEN to_legacy_addr(ConverterNew, keys, last.arg)
    ELSE to_cash_addr(ConverterNew, keys, last.arg)

IsFrameCall ==
    /\ last.op = "to_legacy_addr" \/ IsPlainToCashAddr
    /\ IsOk(legacy_parse(last.arg)) \/ BuiltInCash(last.arg)

\* C20 (as claimed): on a converter extended with prefixes other than the
\* built-in ones, to_cash_addr and to_legacy_addr return for every legacy
\* address and every built-in CashAddr address, with or without its prefix,
\* the result that Converter::new() returns.
C20_FrameAsClaimed ==
    (ExtendedConverter /\ IsFrameCall) =>
        \A keys \in KeyOrders(ConverterNew) : last.res = OnDefault(keys)

\* no added prefix validates the input read as a prefix-less payload
Unshadowed(x) == x.sep \/ ValidatingPrefixes(x) \subseteq DOMAIN BuiltInPrefixes

\* C20 (amended): the same for the addresses written with their prefix; for a
\* prefix-less input (legacy address or CashAddr payload) that no added prefix
\* validates the result is one that Converter::new() can return for it, and
\* the only one when at most one built-in prefix validates the input.
C20_FrameWhenUnshadowed ==
    (ExtendedConverter /\ IsFrameCall /\ Unshadowed(last.arg)) =>
        /\ \E keys \in KeyOrders(ConverterNew) : last.res = OnDefault(keys)
        /\ (last.arg.sep \/ Cardinality(ValidatingPrefixes(last.arg)) <= 1) =>
              \A keys \in KeyOrders(ConverterNew) : last.res = OnDefault(keys)

\* a prefix-less mainnet payload on a converter that has BCHTEST registered
C20_Witness ==
    /\ ExtendedConverter /\ "BCHTEST" \in DOMAIN prefix_list
    /\ last.op = "to_legacy_addr" /\ ~last.arg.sep
    /\ ValidatingPrefixes(last.arg) = {"bitcoincash"}
    /\ IsOk(last.res)
    /\ \A keys \in KeyOrders(ConverterNew) : last.res = OnDefault(keys)

\* CashConverter::parse(CashConverter::build(f, n, t, h)) == (f, n, t, h)
BuildParseRoundTrip(d) ==
    \A t \in AddressType, h \in Hashes, keys \in KeyOrders(Self) :
        LET b == cash_build(Self, d.format, d.network, t, h)
        IN  /\ IsOk(b)
            /\ cash_parse(Self, keys, b.val) = Ok(Parsed(d.format, d.network, t, h))

\* C21 (as claimed): after Converter::new and any add_prefixes calls, also
\* calls that register a built-in or an earlier prefix again, the forward map
\* sends the canonical prefix of every (format, network) pair back to that
\* pair, and CashConverter::parse(CashConverter::build(f, n, t, h)) is
\* (f, n, t, h) for every registered pair.
C21_BidirectionalConsistency ==
    \A d \in DOMAIN prefix_inv_list :
        /\ prefix_inv_list[d] \in DOMAIN prefix_list
        /\ prefix_list[prefix_inv_list[d]] = d
        /\ BuildParseRoundTrip(d)

\* C21 where it does hold: the pairs whose canonical prefix is still bound to
\* them in the forward map
C21_ConsistentPairsRoundTrip ==
    InSetup =>
        \A d \in DOMAIN prefix_inv_list :
            /\ prefix_inv_list[d] \in DOMAIN prefix_list
            /\ prefix_list[prefix_inv_list[d]] = d => BuildParseRoundTrip(d)

\* a built-in prefix registered again: its old pair still names it
C21_Refuted ==
    /\ last.op = "add_prefixes"
    /\ prefix_list["bitcoincash"] = PrefixDetails(Other("SLP"), "Testnet")
    /\ prefix_inv_list[PrefixDetails(CashAddr, "Mainnet")] = "bitcoincash"

\* s decodes, under every key order, to network n
DecodesToNetwork(s, n) ==
    \A keys \in KeyOrders(Self) :
        LET c == cash_parse(Self, keys, s)
        IN  IsOk(c) /\ c.val.network = n

\* C22 (as claimed): whenever to_cash_addr_with_options(input, format,
\* Some(n)) returns Ok(s), s decodes (CashConverter::parse) to network n, also
\* when the input is a cash-style address of the target format on another
\* network.  Stated for the converter that Converter::new returns, where it
\* already fails.
C22_NetworkOverride ==
    (/\ IsDefaultConverter /\ IsToCashAddr
     /\ last.network # NoNetwork /\ IsOk(last.res)) =>
        DecodesToNetwork(last.res.val, last.network)

\* C22 where it does hold: the input is converted (it is a legacy address, or
\* a cash-style one of another format) and the canonical prefix of the target
\* pair is bound to that pair in the forward map
C22_OverrideWhenConverted ==
    (/\ IsToCashAddr /\ last.network # NoNetwork /\ IsOk(last.res)
     /\ \A keys \in KeyOrders(Self) :
          detect_addr_format(Self, keys, last.arg) # Ok(TargetFormat)
     /\ LET d == PrefixDetails(TargetFormat, last.network)
        IN  d \in DOMAIN prefix_inv_list => prefix_list[prefix_inv_list[d]] = d) =>
        DecodesToNetwork(last.res.val, last.network)

\* a mainnet CashAddr address, asked for on Regtest, comes back as it was
C22_Refuted ==
    /\ IsDefaultConverter /\ IsToCashAddr
    /\ last.format = NoFormat /\ last.network = "Regtest"
    /\ last.arg.sep /\ last.arg.prefix = "bitcoincash"
    /\ last.res = Ok(last.arg)
    /\ \A keys \in KeyOrders(Self) :
         cash_parse(Self, keys, last.res.val).val.network = "Mainnet"

====
